---- MODULE Spec2Model ----
(***************************************************************************)
(* A model of dit/math/sigmaalgebra.py: the incidence-matrix encoder       *)
(* (sets2matrix), the column folder (unique_columns), the generator        *)
(* (sigma_algebra) and the two verifiers (is_sigma_algebra and             *)
(* is_sigma_algebra__brute).                                               *)
(*                                                                         *)
(* The functions are pure.  A behaviour fixes the arguments (C, X) of a    *)
(* call in its initial state; each action is one call of one function on   *)
(* these arguments and records what the call returned or the exception     *)
(* that ended it.  The iteration order of the frozen universal set, which  *)
(* the code uses as the column order of the matrix, is not determined by   *)
(* the arguments: every call picks one.                                    *)
(***************************************************************************)
EXTENDS Integers, FiniteSets, Sequences, TLC

\* The universal elements are 1..N; a collection holds at most MaxSets sets.
N == 3
MaxSets == 4

Elems == 1..N
Subsets == SUBSET Elems
Collections == {c \in SUBSET Subsets : Cardinality(c) <= MaxSets}

\* The optional argument X: given = FALSE is X=None.
XArgs == {[given |-> FALSE, set |-> {}]} \cup {[given |-> TRUE, set |-> s] : s \in Subsets}

VARIABLES
    C,      \* the argument C (or F): a set of subsets
    Xarg,   \* the argument X: None or a set
    enc,    \* what sets2matrix(C, X) returned
    sC,     \* what sigma_algebra(C, X) returned
    sC2,    \* what a second call of sigma_algebra(C, X) returned
    fast,   \* what is_sigma_algebra(C, X) returned
    brute   \* what is_sigma_algebra__brute(C, X) returned

vars == <<C, Xarg, enc, sC, sC2, fast, brute>>

(***************************************************************************)
(* Python values.                                                          *)
(***************************************************************************)

\* The orders in which a frozenset of the elements S can be iterated.
Orderings(S) ==
    {s \in [1..Cardinality(S) -> S] : \A x \in S : \E i \in 1..Cardinality(S) : s[i] = x}

\* min() of a non-empty set of indexes.
Min(S) == CHOOSE m \in S : \A n \in S : m <= n

RECURSIVE Pow2(_)
Pow2(k) == IF k = 0 THEN 1 ELSE 2 * Pow2(k - 1)

\* np.array(rows, dtype=int).  A list of no rows becomes a one-dimensional
\* array of shape (0,), whatever len(X) is; n rows of m entries become an array
\* of shape (n, m), also for m = 0.  The rows are keyed by the set they encode:
\* the position of a row is the iteration order of the set C, which no result
\* reads, and two columns are the same tuple iff they agree on every row.
NpArray(rows, ncols) ==
    [shape |-> IF DOMAIN rows = {} THEN <<0>> ELSE <<Cardinality(DOMAIN rows), ncols>>,
     data  |-> rows]

\* enumerate(Cmatrix.transpose()): the columns, indexed from 0.  The transpose
\* of a one-dimensional array is the array itself, and iterating an array
\* yields shape[0] items: shape (0,) yields nothing, and so does the transpose
\* (shape (0, n)) of an array of shape (n, 0).
Transpose(A) ==
    IF Len(A.shape) = 1
      THEN [j \in {} |-> <<>>]
      ELSE [j \in 0..(A.shape[2] - 1) |-> [r \in DOMAIN A.data |-> A.data[r][j]]]

\* cmpy.util.words_iter(alphabet, L): every word of length L over the alphabet,
\* each once.  A word is indexed from 0.
words_iter(alphabet, L) == [0..(L - 1) -> alphabet]

(***************************************************************************)
(* sets2matrix                                                             *)
(***************************************************************************)

\* Lines 36-40: the frozen universal set.
FrozenX(Cc, Xa) == IF Xa.given THEN Xa.set ELSE UNION Cc

\* Lines 44-47, with the frozen X iterated in the order ord.
sets2matrix(Cc, Xa, ord) ==
    [Cmatrix |-> NpArray([cet \in Cc |->
                            [j \in 0..(Len(ord) - 1) |-> IF ord[j + 1] \in cet THEN 1 ELSE 0]],
                         Len(ord)),
     X |-> ord]

(***************************************************************************)
(* unique_columns                                                          *)
(***************************************************************************)

\* The dictionary from each distinct column to the set of indexes holding it.
unique_columns(Cmatrix) ==
    LET cols == Transpose(Cmatrix)
    IN  [col \in {cols[j] : j \in DOMAIN cols} |-> {j \in DOMAIN cols : cols[j] = col}]

(***************************************************************************)
(* sigma_algebra                                                           *)
(***************************************************************************)

\* Lines 104-110: column index -> the least index of an identical column.
Lookups(unique_cols) ==
    [index \in UNION {unique_cols[col] : col \in DOMAIN unique_cols} |->
        Min(unique_cols[CHOOSE col \in DOMAIN unique_cols : index \in unique_cols[col]])]

\* Lines 98-123.  Line 119 reads lookups[i], then word[lookups[i]], for every
\* i of enumerate(X), for every word: a missing key ends the call in KeyError,
\* an index outside the word in IndexError, at the first such i of the first
\* word.  (The sorted list reps of lines 105-111 is never read.)
sigma_algebra(Cc, Xa, ord) ==
    LET e == sets2matrix(Cc, Xa, ord)
        X == e.X
        unique_cols == unique_columns(e.Cmatrix)
        lookups == Lookups(unique_cols)
        L == Cardinality(DOMAIN unique_cols)
        words == words_iter({0, 1}, L)
        idx == 0..(Len(X) - 1)
        bad == {i \in idx : i \notin DOMAIN lookups \/ lookups[i] \notin 0..(L - 1)}
    IN  IF words # {} /\ bad # {}
          THEN [status |-> IF Min(bad) \notin DOMAIN lookups THEN "KeyError" ELSE "IndexError",
                value |-> {}, order |-> ord]
          ELSE [status |-> "ok",
                value |-> {{X[i + 1] : i \in {i \in idx : word[lookups[i]] = 1}} : word \in words},
                order |-> ord]

(***************************************************************************)
(* is_sigma_algebra                                                        *)
(***************************************************************************)

\* is_sigma_algebra without the folding of identical columns: len(F) is
\* compared with 2**len(X).
is_sigma_algebra_unfolded(F, Xa, ord) ==
    Cardinality(F) = Pow2(Len(sets2matrix(F, Xa, ord).X))

\* Lines 153-159.
is_sigma_algebra(F, Xa, ord) ==
    LET e == sets2matrix(F, Xa, ord)
        unique_cols == unique_columns(e.Cmatrix)
    IN  Cardinality(F) = Pow2(Cardinality(DOMAIN unique_cols))

(***************************************************************************)
(* is_sigma_algebra__brute                                                 *)
(***************************************************************************)

\* Lines 183-196: False at the first failing test, True when the loop over F
\* ends (the else of the for), which it does at once for an empty F.
is_sigma_algebra__brute(F, Xa) ==
    LET X == FrozenX(F, Xa)
    IN  \A subset1 \in F :
            /\ (X \ subset1) \in F
            /\ \A subset2 \in F : (subset1 \cup subset2) \in F

(***************************************************************************)
(* The calls.                                                              *)
(***************************************************************************)

Pending == [status |-> "pending", value |-> {}, order |-> <<>>]
PendingBool == [status |-> "pending", value |-> FALSE]
PendingEnc == [status |-> "pending", shape |-> <<>>, X |-> <<>>]

Init ==
    /\ C \in Collections
    /\ Xarg \in XArgs
    /\ enc = PendingEnc
    /\ sC = Pending
    /\ sC2 = Pending
    /\ fast = PendingBool
    /\ brute = PendingBool

Sets2Matrix ==
    /\ enc.status = "pending"
    /\ \E ord \in Orderings(FrozenX(C, Xarg)) :
          LET e == sets2matrix(C, Xarg, ord)
          IN  enc' = [status |-> "ok", shape |-> e.Cmatrix.shape, X |-> e.X]
    /\ UNCHANGED <<C, Xarg, sC, sC2, fast, brute>>

SigmaAlgebra ==
    /\ sC.status = "pending"
    /\ \E ord \in Orderings(FrozenX(C, Xarg)) : sC' = sigma_algebra(C, Xarg, ord)
    /\ UNCHANGED <<C, Xarg, enc, sC2, fast, brute>>

\* The same call once more: a new frozenset, a new iteration order.
SigmaAlgebraAgain ==
    /\ sC.status # "pending"
    /\ sC2.status = "pending"
    /\ \E ord \in Orderings(FrozenX(C, Xarg)) : sC2' = sigma_algebra(C, Xarg, ord)
    /\ UNCHANGED <<C, Xarg, enc, sC, fast, brute>>

IsSigmaAlgebra ==
    /\ fast.status = "pending"
    /\ \E ord \in Orderings(FrozenX(C, Xarg)) :
          fast' = [status |-> "ok", value |-> is_sigma_algebra(C, Xarg, ord)]
    /\ UNCHANGED <<C, Xarg, enc, sC, sC2, brute>>

IsSigmaAlgebraBrute ==
    /\ brute.status = "pending"
    /\ brute' = [status |-> "ok", value |-> is_sigma_algebra__brute(C, Xarg)]
    /\ UNCHANGED <<C, Xarg, enc, sC, sC2, fast>>

\* Every function, called once on the same arguments.
Next == Sets2Matrix \/ SigmaAlgebra \/ IsSigmaAlgebra \/ IsSigmaAlgebraBrute
Spec == Init /\ [][Next]_vars

\* The generator, called twice on the same arguments.
NextGen == SigmaAlgebra \/ SigmaAlgebraAgain
SpecGen == Init /\ [][NextGen]_vars

\* The two verifiers, called on the same arguments.
NextVer == IsSigmaAlgebra \/ IsSigmaAlgebraBrute
SpecVer == Init /\ [][NextVer]_vars

(***************************************************************************)
(* What the claims speak of.                                               *)
(***************************************************************************)

\* The universal set of the call.
X == FrozenX(C, Xarg)

\* X is omitted, or supplied and covering every member of C.
Covers == UNION C \subseteq X

\* The definition of a sigma-algebra on U.
IsSigmaAlgebraOn(F, U) ==
    /\ U \in F
    /\ {} \in F
    /\ \A S1 \in F : (U \ S1) \in F
    /\ \A S1 \in F : \A S2 \in F : (S1 \cup S2) \in F

\* The atoms: the classes of elements of U that belong to the same members of Cc.
Atoms(Cc, U) == {{y \in U : \A S \in Cc : (x \in S) <=> (y \in S)} : x \in U}
AtomUnions(Cc, U) == {UNION A : A \in SUBSET Atoms(Cc, U)}

Returned(r) == r.status # "pending"

\* Whenever sigma_algebra does return, it returns the unions of atoms of the
\* members of C cut down to X.  Holds under SpecGen.
ReturnedFamilyIsAtomPowerSet ==
    sC.status = "ok" => sC.value = AtomUnions({S \cap X : S \in C}, X)

\* C1: for every X and every collection C of subsets of X, sigma_algebra(C, X)
\* returns a family closed under complement in X and under pairwise union.
C1_ReturnsClosedFamily ==
    (Covers /\ Returned(sC)) =>
        /\ sC.status = "ok"
        /\ \A S1 \in sC.value : (X \ S1) \in sC.value
        /\ \A S1 \in sC.value : \A S2 \in sC.value : (S1 \cup S2) \in sC.value

\* C2: for every C (X the union of C, or supplied and covering C), the family
\* sigma_algebra returns contains every member of C, X and the empty set.
C2_ContainsGenerators ==
    (Covers /\ Returned(sC)) =>
        /\ sC.status = "ok"
        /\ C \subseteq sC.value
        /\ X \in sC.value
        /\ {} \in sC.value

\* C3: for every C and X covering C, sigma_algebra(C, X) returns exactly the
\* unions of atoms, hence 2^k sets, k the number of atoms.
C3_AtomPowerSet ==
    (Covers /\ Returned(sC)) =>
        /\ sC.status = "ok"
        /\ sC.value = AtomUnions(C, X)
        /\ Cardinality(sC.value) = Pow2(Cardinality(Atoms(C, X)))

\* C4: on well-formed input (X omitted, or supplied and covering) sigma_algebra,
\* is_sigma_algebra and sets2matrix return a result and never end in an error.
C4_Total ==
    Covers =>
        /\ sC.status \in {"pending", "ok"}
        /\ fast.status \in {"pending", "ok"}
        /\ enc.status \in {"pending", "ok"}

\* C5: when X is supplied and a member of the collection holds an element not
\* in X, no operation returns a result: each fails.
C5_DomainError ==
    (Xarg.given /\ ~Covers) =>
        /\ enc.status # "ok"
        /\ sC.status # "ok"
        /\ fast.status # "ok"
        /\ brute.status # "ok"

\* C6: for every family F of subsets of X, with the same X given to both, the
\* fast and the brute-force verifier return the same boolean.
C6_VerifiersAgree ==
    (Covers /\ fast.status = "ok" /\ brute.status = "ok") => fast.value = brute.value

\* C7: for every family F of subsets of X (X supplied and covering F, or the
\* union of F), is_sigma_algebra(F, X) returns True iff F is a sigma-algebra
\* on X.
C7_FastIsExact ==
    (Covers /\ fast.status = "ok") => (fast.value <=> IsSigmaAlgebraOn(C, X))

\* A sigma-algebra of four sets on three elements, two of them folded into one
\* class, for which is_sigma_algebra returned True.
C7_Witness ==
    /\ fast.status = "ok"
    /\ fast.value
    /\ Xarg.given
    /\ Covers
    /\ Cardinality(X) = 3
    /\ Cardinality(C) = 4
    /\ IsSigmaAlgebraOn(C, X)

\* C8: for every family F of subsets of X, is_sigma_algebra__brute(F, X)
\* returns True iff F is a sigma-algebra on X: F contains X and the empty set
\* and is closed under complement in X and under pairwise union.
C8_BruteIsExact ==
    (Covers /\ brute.status = "ok") => (brute.value <=> IsSigmaAlgebraOn(C, X))

\* C9: two calls of sigma_algebra(C, X) that differ only in the column order
\* end the same way: both fail or both return, and then the same family.
C9_OrderIndependent ==
    (Returned(sC) /\ Returned(sC2)) =>
        /\ (sC.status = "ok") <=> (sC2.status = "ok")
        /\ sC.value = sC2.value

\* C10: for C = {} and a supplied non-empty X the matrix has zero rows and
\* sigma_algebra(C, X) returns exactly {{}, X}.
C10_EmptyCollection ==
    (C = {} /\ Xarg.given /\ Xarg.set # {}) =>
        /\ enc.status = "ok" => enc.shape[1] = 0
        /\ Returned(sC) => (sC.status = "ok" /\ sC.value = {{}, X})

====
